---- MODULE Spec2Model ----
(***************************************************************************)
(* Model of cluster2/topo.go: the Topo codec for the CLUSTER SLOTS reply.  *)
(*                                                                         *)
(* A Node is a record [Addr, ID, Slots, SlaveOfAddr, SlaveOfID]; Slots is  *)
(* a sequence of pairs <<start, end>> of uint16 (start inclusive, end      *)
(* exclusive).  A Topo is a sequence of Nodes.  A wire reply is a sequence *)
(* of slot-set entries [lo, hi, nodes]: the two inclusive bounds and the   *)
(* node entries, each a sequence of strings (host, port and maybe id).     *)
(*                                                                         *)
(* Go's map iteration order is unspecified: every range over a map is a    *)
(* choice among all orders of its keys.  sort.Slice on the short slices of *)
(* this model runs Go's insertion sort (the sort package uses nothing else *)
(* below 7 elements), which is modelled step for step, so that the outcome *)
(* of a comparator that is no strict weak order is the one Go produces.    *)
(***************************************************************************)
EXTENDS Integers, Sequences, FiniteSets, TLC

VARIABLES
    stream,   \* the reply read by UnmarshalRESP: a sequence of slot-set entries
    tt,       \* the Topo value: destination of UnmarshalRESP, source of MarshalRESP
    old,      \* history: tt as it was when the last UnmarshalRESP call started
    err,      \* error returned by the last call, "" for nil
    out,      \* the replies written by the MarshalRESP calls so far, oldest first
    back,     \* a fresh Topo into which the last written reply was decoded
    pc        \* position of the caller

vars == <<stream, tt, old, err, out, back, pc>>

(***************************************************************************)
(* Bounds and value domains                                                *)
(***************************************************************************)
MaxElems == 5      \* elements of a reply: its slot-set entries plus their node entries
MaxBuilt == 4      \* elements of a Topo built by a caller: its nodes plus their slot ranges

Uint16Mod == 65536 \* slots are [2]uint16

Hosts == {"a", "b", "c"}
Port == "1"

\* Inclusive bounds a reply may carry (lo <= hi): two ranges with the same
\* start, and one with another start that ends at the top of uint16.
WireRanges == {<<0, 0>>, <<0, 1>>, <<1, 65535>>}

\* Node entries of a reply: host a with its id, host b without id (an older
\* server), host c with its id, and an entry too short to hold an address.
WireNodeEntries ==
    {<<"a", Port, "x">>, <<"b", Port>>, <<"c", Port, "y">>, <<"a">>}

\* the slot-set entries with n node entries
WireEntries(n) ==
    {[lo |-> r[1], hi |-> r[2], nodes |-> ns] :
        r \in WireRanges, ns \in [1..n -> WireNodeEntries]}

\* the elements of reply w: its slot-set entries plus their node entries
Elems(w) ==
    LET sum[i \in 0..Len(w)] ==
            IF i = 0 THEN 0 ELSE sum[i - 1] + 1 + Len(w[i].nodes)
    IN sum[Len(w)]

(***************************************************************************)
(* Helpers                                                                 *)
(***************************************************************************)
Range(s) == {s[i] : i \in 1..Len(s)}

\* All orders in which a Go map with key set S may be iterated.
Orders(S) ==
    {p \in [1..Cardinality(S) -> S] : \A i, j \in 1..Cardinality(S) : p[i] = p[j] => i = j}

(***************************************************************************)
(* Topo.sort and sort.Slice                                                *)
(***************************************************************************)
\* less of the per-node sort: node.Slots[i][0] < node.Slots[j][0]
SlotLess(a, b) == a[1] < b[1]

\* Variant of NodeLess without the tie-break on the slave status.
NodeLessStartOnly(a, b) == a.Slots[1][1] < b.Slots[1][1]

\* less of the node sort
NodeLess(a, b) ==
    IF a.Slots[1] # b.Slots[1]
    THEN a.Slots[1][1] < b.Slots[1][1]
    ELSE a.SlaveOfAddr = ""

\* less of the sort of allTSS in MarshalRESP
TssLess(a, b) == a.slots[1] < b.slots[1]

\* the less function of each of the three sort.Slice calls
Less(call, a, b) ==
    CASE call = "slots" -> SlotLess(a, b)
      [] call = "nodes" -> NodeLess(a, b)
      [] call = "allTSS" -> TssLess(a, b)

\* sort.Slice(s, less) for a short slice: insertion sort.  Element x = s[i]
\* is swapped leftwards while less(x, left neighbour); it stops right after
\* the rightmost element of the sorted prefix that it is not less than.
InsertSorted(pre, x, call) ==
    LET stay == {j \in 1..Len(pre) : ~Less(call, x, pre[j])}
        pos == IF stay = {} THEN 0 ELSE CHOOSE j \in stay : \A k \in stay : k <= j
    IN SubSeq(pre, 1, pos) \o <<x>> \o SubSeq(pre, pos + 1, Len(pre))

SortSlice(s, call) ==
    LET ins[i \in 0..Len(s)] ==
            IF i = 0 THEN <<>> ELSE InsertSorted(ins[i - 1], s[i], call)
    IN ins[Len(s)]

SortNodeSlots(n) == [n EXCEPT !.Slots = SortSlice(n.Slots, "slots")]

\* Variant of TopoSort that leaves each node's Slots as they are.
TopoSortNodesOnly(t) == SortSlice(t, "nodes")

TopoSort(t) ==
    SortSlice([i \in 1..Len(t) |-> SortNodeSlots(t[i])], "nodes")

(***************************************************************************)
(* topoSlotSet.UnmarshalRESP                                               *)
(***************************************************************************)
MalformedNode == "malformed node array"

\* Variant of DecodeSlots that keeps the second bound inclusive.
DecodeSlotsInclusive(e) == <<e.lo, e.hi>>

\* tss.slots after the two bounds are read and the second is incremented
DecodeSlots(e) == <<e.lo, (e.hi + 1) % Uint16Mod>>

\* the address of the entry's master, as the loop has it at iteration i > 1
MasterOf(e) ==
    [Addr |-> e.nodes[1][1] \o ":" \o e.nodes[1][2],
     ID |-> IF Len(e.nodes[1]) > 2 THEN e.nodes[1][3] ELSE ""]

\* Variant of DecodeNode that makes a replica the slave of the node entry
\* before it.
DecodeNodeOfPrevious(e, i) ==
    LET strs == e.nodes[i]
        prev == e.nodes[IF i = 1 THEN 1 ELSE i - 1]
    IN [Addr |-> strs[1] \o ":" \o strs[2],
        ID |-> IF Len(strs) > 2 THEN strs[3] ELSE "",
        Slots |-> <<DecodeSlots(e)>>,
        SlaveOfAddr |-> IF i = 1 THEN "" ELSE prev[1] \o ":" \o prev[2],
        SlaveOfID |-> IF i = 1 THEN "" ELSE IF Len(prev) > 2 THEN prev[3] ELSE ""]

\* the Node built from node entry i of slot-set entry e
DecodeNode(e, i) ==
    LET strs == e.nodes[i]
    IN [Addr |-> strs[1] \o ":" \o strs[2],
        ID |-> IF Len(strs) > 2 THEN strs[3] ELSE "",
        Slots |-> <<DecodeSlots(e)>>,
        SlaveOfAddr |-> IF i = 1 THEN "" ELSE MasterOf(e).Addr,
        SlaveOfID |-> IF i = 1 THEN "" ELSE MasterOf(e).ID]

\* the first node entry the loop rejects, 0 when there is none
FirstBadNode(e) ==
    LET bad == {i \in 1..Len(e.nodes) : Len(e.nodes[i]) < 2}
    IN IF bad = {} THEN 0 ELSE CHOOSE i \in bad : \A k \in bad : i <= k

TssError(e) == IF FirstBadNode(e) = 0 THEN "" ELSE MalformedNode

TssNodes(e) == [i \in 1..Len(e.nodes) |-> DecodeNode(e, i)]

(***************************************************************************)
(* Topo.UnmarshalRESP                                                      *)
(***************************************************************************)
\* the error of the first slot-set entry that fails to parse, "" when all parse
ParseError(w) ==
    LET bad == {i \in 1..Len(w) : TssError(w[i]) # ""}
    IN IF bad = {} THEN "" ELSE TssError(w[CHOOSE i \in bad : \A k \in bad : i <= k])

\* all provisional nodes, in the order the merge loop visits them
Provisional(w) ==
    LET flat[i \in 0..Len(w)] ==
            IF i = 0 THEN <<>> ELSE flat[i - 1] \o TssNodes(w[i])
    IN flat[Len(w)]

\* Variant of MergeNode that stores the new node over the existing one.
MergeNodeOverwrite(m, n) ==
    [a \in DOMAIN m \cup {n.Addr} |-> IF a = n.Addr THEN n ELSE m[a]]

\* one step of the merge loop: node n into the map m (a function on addresses)
MergeNode(m, n) ==
    IF n.Addr \in DOMAIN m
    THEN [m EXCEPT ![n.Addr].Slots = m[n.Addr].Slots \o n.Slots]
    ELSE [a \in DOMAIN m \cup {n.Addr} |-> IF a = n.Addr THEN n ELSE m[a]]

\* nodeAddrM after the merge loop
NodeAddrM(w) ==
    LET p == Provisional(w)
        acc[i \in 0..Len(p)] ==
            IF i = 0 THEN [a \in {} |-> 0] ELSE MergeNode(acc[i - 1], p[i])
    IN acc[Len(p)]

\* *tt after the nodes of the map are appended in iteration order `order`
AppendNodes(dest, m, order) ==
    dest \o [i \in 1..Len(order) |-> m[order[i]]]

\* Variant of OnError that has appended the nodes of the slot-set entries
\* parsed before the one that failed.
OnErrorPartial(dest, w) ==
    LET bad == CHOOSE i \in 1..Len(w) :
                   TssError(w[i]) # "" /\ \A k \in 1..i - 1 : TssError(w[k]) = ""
    IN dest \o Provisional(SubSeq(w, 1, bad - 1))

\* *tt when UnmarshalRESP returns an error
OnError(dest, w) == dest

\* the values *tt may hold when UnmarshalRESP(w) returns nil
Unmarshaled(dest, w) ==
    {TopoSort(AppendNodes(dest, NodeAddrM(w), order)) :
        order \in Orders(DOMAIN NodeAddrM(w))}

(***************************************************************************)
(* topoSlotSet.MarshalRESP and Topo.MarshalRESP                            *)
(***************************************************************************)
\* net.SplitHostPort on the addresses of this model; any other string has no
\* port, and the error is dropped: host and port are both empty.
SplitHostPort(addr) ==
    CASE addr = "a:1" -> <<"a", "1">>
      [] addr = "b:1" -> <<"b", "1">>
      [] addr = "c:1" -> <<"c", "1">>
      [] addr = "[c]:1" -> <<"c", "1">>
      [] OTHER -> <<"", "">>

\* Variant of EncodeNode that never writes the id.
EncodeNodeNoID(n) == SplitHostPort(n.Addr)

\* the node entry written for node n
EncodeNode(n) ==
    IF n.ID # "" THEN SplitHostPort(n.Addr) \o <<n.ID>> ELSE SplitHostPort(n.Addr)

\* the second bound written for tss.slots
EncodeEnd(slots) == (slots[2] + Uint16Mod - 1) % Uint16Mod

\* the slot-set entry written for tss
EncodeTss(tss) ==
    [lo |-> tss.slots[1],
     hi |-> EncodeEnd(tss.slots),
     nodes |-> [i \in 1..Len(tss.nodes) |-> EncodeNode(tss.nodes[i])]]

\* the keys of m: every range some node holds
SlotKeys(t) == UNION {Range(t[i].Slots) : i \in 1..Len(t)}

\* m[r].nodes: node t[i] is appended once for each of its Slots equal to r
BucketNodes(t, r) ==
    LET times(n) == Cardinality({k \in 1..Len(n.Slots) : n.Slots[k] = r})
        acc[i \in 0..Len(t)] ==
            IF i = 0 THEN <<>>
            ELSE acc[i - 1] \o [k \in 1..times(t[i]) |-> t[i]]
    IN acc[Len(t)]

\* allTSS after the sort, when the map was iterated in `order`
AllTSS(t, order) ==
    SortSlice([i \in 1..Len(order) |->
                  [slots |-> order[i], nodes |-> BucketNodes(t, order[i])]],
              "allTSS")

\* the replies MarshalRESP may write for t (the array header is their length)
Marshaled(t) ==
    {[i \in 1..Len(order) |-> EncodeTss(AllTSS(t, order)[i])] :
        order \in Orders(SlotKeys(t))}

(***************************************************************************)
(* Topologies built by a caller                                            *)
(***************************************************************************)
BuiltAddrs == {"a:1", "b:1", "[c]:1"}
BuiltIDs == {"", "x"}
BuiltRanges == {<<0, 1>>, <<0, 2>>, <<1, 2>>}
BuiltSlaveOf == {<<"", "">>, <<"a:1", "x">>, <<"a:1", "">>}

\* the nodes with r slot ranges
BuiltNodes(r) ==
    {[Addr |-> a, ID |-> i, Slots |-> sl, SlaveOfAddr |-> so[1], SlaveOfID |-> so[2]] :
        a \in BuiltAddrs, i \in BuiltIDs, sl \in [1..r -> BuiltRanges], so \in BuiltSlaveOf}

UniqueAddrs(t) == \A i, j \in 1..Len(t) : t[i].Addr = t[j].Addr => i = j

\* the elements of Topo t: its nodes plus their slot ranges
Built(t) ==
    LET sum[i \in 0..Len(t)] ==
            IF i = 0 THEN 0 ELSE sum[i - 1] + 1 + Len(t[i].Slots)
    IN sum[Len(t)]

(***************************************************************************)
(* Decoding a reply                                                        *)
(***************************************************************************)
\* a new, empty Topo, and a connection on which no reply was written yet
InitReply ==
    /\ stream = <<>>
    /\ tt = <<>>
    /\ old = <<>>
    /\ err = ""
    /\ out = <<>>
    /\ back = <<>>
    /\ pc = "recv"

\* the server writes one more slot-set entry of the reply
Send ==
    /\ pc = "recv"
    /\ \E n \in 0..MaxElems - Elems(stream) - 1 :
          \E e \in WireEntries(n) : stream' = Append(stream, e)
    /\ UNCHANGED <<tt, old, err, out, back, pc>>

\* dest.UnmarshalRESP(w) for dest = tt: the reply parses and its nodes are
\* appended and sorted, or it does not and the error is returned
Unmarshal(w) ==
    \/ /\ ParseError(w) = ""
       /\ tt' \in Unmarshaled(tt, w)
       /\ err' = ""
    \/ /\ ParseError(w) # ""
       /\ tt' = OnError(tt, w)
       /\ err' = ParseError(w)

\* tt.UnmarshalRESP(stream) on a new Topo
Decode ==
    /\ pc = "recv"
    /\ old' = tt
    /\ Unmarshal(stream)
    /\ pc' = IF ParseError(stream) = "" THEN "decoded" ELSE "failed"
    /\ UNCHANGED <<stream, out, back>>

\* Replies to a second request: the same reply again, or a reply whose only
\* or second slot-set entry holds a node entry that is too short.
BadEntry == [lo |-> 0, hi |-> 0, nodes |-> <<<<"b", Port>>, <<"a">>>>]
GoodEntry == [lo |-> 0, hi |-> 1, nodes |-> <<<<"c", Port, "y">>>>]
RetryReplies(w) == {w, <<BadEntry>>, <<GoodEntry, BadEntry>>}

\* tt.UnmarshalRESP(reply) again, on the Topo the first call filled
Redecode ==
    /\ pc = "decoded"
    /\ old' = tt
    /\ \E w \in RetryReplies(stream) :
          /\ stream' = w
          /\ Unmarshal(w)
          /\ pc' = IF ParseError(w) = "" THEN "redecoded" ELSE "failed"
    /\ UNCHANGED <<out, back>>

(***************************************************************************)
(* Encoding a Topo, and decoding what was written                          *)
(***************************************************************************)
\* a caller builds a Topo itself, node by node
InitBuilt ==
    /\ stream = <<>>
    /\ tt = <<>>
    /\ old = <<>>
    /\ err = ""
    /\ out = <<>>
    /\ back = <<>>
    /\ pc = "built"

\* the caller appends a node with an address the Topo does not hold yet
Build ==
    /\ pc = "built"
    /\ \E r \in 0..MaxBuilt - Built(tt) - 1 :
          \E n \in BuiltNodes(r) :
              /\ UniqueAddrs(Append(tt, n))
              /\ tt' = Append(tt, n)
    /\ UNCHANGED <<stream, old, err, out, back, pc>>

\* tt.MarshalRESP(w), at most twice for the same Topo
Encode ==
    /\ pc \in {"decoded", "built", "encoded"}
    /\ \E reply \in Marshaled(tt) : out' = Append(out, reply)
    /\ err' = ""
    /\ pc' = CASE pc = "decoded" -> "marshaled"
             [] pc = "built" -> "encoded"
             [] pc = "encoded" -> "reencoded"
    /\ UNCHANGED <<stream, tt, old, back>>

\* var t Topo; t.UnmarshalRESP(the reply written last)
DecodeBack ==
    /\ pc \in {"marshaled", "encoded"}
    /\ ParseError(out[Len(out)]) = ""
    /\ back' \in Unmarshaled(<<>>, out[Len(out)])
    /\ err' = ""
    /\ pc' = "back"
    /\ UNCHANGED <<stream, tt, old, out>>

\* a reply is written, decoded, and decoded again or encoded and decoded back
Init == InitReply

Next == Send \/ Decode \/ Redecode \/ Encode \/ DecodeBack

Spec == Init /\ [][Next]_vars

\* a Topo built by a caller is encoded, once or twice, and decoded back
NextBuilt == Build \/ Encode \/ DecodeBack

SpecBuilt == InitBuilt /\ [][NextBuilt]_vars

(***************************************************************************)
(* Properties.  They are stated on the reply and on the Topo themselves,   *)
(* not through the operators above.                                        *)
(***************************************************************************)
\* the listings of a reply: <<i, k>> is node entry k of slot-set entry i
Listings(w) == UNION {{<<i, k>> : k \in 1..Len(w[i].nodes)} : i \in 1..Len(w)}

\* the address and the id a listing carries
ListedAddr(w, l) == w[l[1]].nodes[l[2]][1] \o ":" \o w[l[1]].nodes[l[2]][2]
ListedID(w, l) ==
    IF Len(w[l[1]].nodes[l[2]]) > 2 THEN w[l[1]].nodes[l[2]][3] ELSE ""

\* the half-open range of slot-set entry i, in uint16
ListedRange(w, i) == <<w[i].lo, (w[i].hi + 1) % Uint16Mod>>

WellFormed(w) == \A l \in Listings(w) : Len(w[l[1]].nodes[l[2]]) >= 2

Indexes(t, a) == {i \in 1..Len(t) : t[i].Addr = a}
Count(s, x) == Cardinality({k \in 1..Len(s) : s[k] = x})

\* t is what merging reply w gives: one node for each listed address and no
\* other, holding the range of every entry that lists it, once per listing
MergeOf(t, w) ==
    /\ \A l \in Listings(w) : Cardinality(Indexes(t, ListedAddr(w, l))) = 1
    /\ \A i \in 1..Len(t) :
          /\ \E l \in Listings(w) : ListedAddr(w, l) = t[i].Addr
          /\ Len(t[i].Slots) =
                Cardinality({l \in Listings(w) : ListedAddr(w, l) = t[i].Addr})
          /\ \A j \in 1..Len(w) :
                Count(t[i].Slots, ListedRange(w, j)) >=
                   Cardinality({l \in Listings(w) :
                                   l[1] = j /\ ListedAddr(w, l) = t[i].Addr})

\* C2 (merge correctness): a reply decoded into an empty Topo gives exactly
\* one Node for each distinct address the reply lists, and that Node's Slots
\* hold the half-open range of every slot-set entry listing the address, one
\* element per listing.
C2_MergeCorrect ==
    /\ pc = "decoded" => MergeOf(tt, stream)
    /\ pc = "back" => MergeOf(back, out[Len(out)])

\* an address listed by both entries of the reply, under different ranges,
\* is one node holding both
C2_Witness ==
    /\ pc = "decoded"
    /\ Len(stream) = 2
    /\ ListedRange(stream, 1) # ListedRange(stream, 2)
    /\ \E i \in 1..Len(tt) :
          /\ Len(tt[i].Slots) = 2
          /\ Count(tt[i].Slots, ListedRange(stream, 1)) = 1
          /\ Count(tt[i].Slots, ListedRange(stream, 2)) = 1
          /\ Len(tt) > 1

\* the node of t at address a (there is one)
NodeAt(t, a) == t[CHOOSE i \in 1..Len(t) : t[i].Addr = a]

\* listing l is the first one of its address in reply w
FirstListing(w, l) ==
    \A m \in Listings(w) :
        ListedAddr(w, m) = ListedAddr(w, l) =>
            \/ m[1] > l[1]
            \/ m[1] = l[1] /\ m[2] >= l[2]

\* the node decoded from listing l has the role the position of l gives it
RoleOf(t, w, l) ==
    LET n == NodeAt(t, ListedAddr(w, l))
    IN IF l[2] = 1
       THEN n.SlaveOfAddr = "" /\ n.SlaveOfID = ""
       ELSE /\ n.SlaveOfAddr = ListedAddr(w, <<l[1], 1>>)
            /\ n.SlaveOfID = ListedID(w, <<l[1], 1>>)

\* C3 as claimed (master/replica derivation): in the decoded Topo the node of
\* every first node entry of a slot-set entry has empty SlaveOfAddr and
\* SlaveOfID, and the node of every later node entry has the address and id
\* of the entry's first node entry.
C3_Original ==
    pc = "decoded" => \A l \in Listings(stream) : RoleOf(tt, stream, l)

\* C3 as amended: the same, for the node entries that are the first listing
\* of their address in the reply; a node listed before keeps the SlaveOfAddr
\* and SlaveOfID of its first listing.
C3_RoleOfFirstListing ==
    pc = "decoded" =>
        \A l \in Listings(stream) :
            FirstListing(stream, l) => RoleOf(tt, stream, l)

\* an entry with three node entries, each the first listing of its address:
\* the third is the replica of the first, not of the second
C3_Witness ==
    /\ pc = "decoded"
    /\ \E i \in 1..Len(stream) :
          /\ Len(stream[i].nodes) = 3
          /\ \A k \in 1..3 : FirstListing(stream, <<i, k>>)
          /\ ListedAddr(stream, <<i, 2>>) # ListedAddr(stream, <<i, 1>>)
          /\ NodeAt(tt, ListedAddr(stream, <<i, 3>>)).SlaveOfAddr =
                ListedAddr(stream, <<i, 1>>)
          /\ NodeAt(tt, ListedAddr(stream, <<i, 3>>)).SlaveOfID # ""

\* C4 as claimed (range conversion): inclusive bounds [a, b] with a <= b of
\* a reply decode to the range with start a and end b + 1 > a, and the
\* range encodes back to the bounds [a, b].
C4_Original ==
    /\ pc = "decoded" =>
          \A l \in Listings(stream) :
              LET e == stream[l[1]]
                  n == NodeAt(tt, ListedAddr(stream, l))
              IN e.lo <= e.hi =>
                    /\ Count(n.Slots, <<e.lo, e.hi + 1>>) > 0
                    /\ e.hi + 1 > e.lo
    /\ pc = "marshaled" =>
          {<<out[1][i].lo, out[1][i].hi>> : i \in 1..Len(out[1])} =
          {<<stream[l[1]].lo, stream[l[1]].hi>> : l \in Listings(stream)}

\* C4 as amended: inclusive bounds [a, b] with a <= b decode to the range
\* with start a and end (b + 1) mod 2^16, which is b + 1 > a when b < 65535
\* and 0 when b = 65535; the range encodes back to the bounds [a, b].
C4_RangeConversion ==
    /\ pc = "decoded" =>
          \A l \in Listings(stream) :
              LET e == stream[l[1]]
                  n == NodeAt(tt, ListedAddr(stream, l))
                  end == IF e.hi = Uint16Mod - 1 THEN 0 ELSE e.hi + 1
              IN e.lo <= e.hi =>
                    /\ Count(n.Slots, <<e.lo, end>>) > 0
                    /\ e.hi < Uint16Mod - 1 => end > e.lo
    /\ pc = "marshaled" =>
          {<<out[1][i].lo, out[1][i].hi>> : i \in 1..Len(out[1])} =
          {<<stream[l[1]].lo, stream[l[1]].hi>> : l \in Listings(stream)}

\* bounds that end at 65535 and bounds that do not were decoded and encoded
C4_Witness ==
    /\ pc = "marshaled"
    /\ Len(out[1]) = 2
    /\ \E i \in 1..2 : out[1][i].hi = Uint16Mod - 1 /\ out[1][i].lo = 1
    /\ \E i \in 1..2 : out[1][i].hi = 1 /\ out[1][i].lo = 0
    /\ \E l \in Listings(stream) : stream[l[1]].hi = 1

\* the start of the first range of node n
FirstStart(n) == n.Slots[1][1]

IsMaster(n) == n.SlaveOfAddr = ""

SlotsAscending(n) ==
    \A k, m \in 1..Len(n.Slots) : k < m => n.Slots[k][1] <= n.Slots[m][1]

OrderedByFirstStart(t) ==
    \A i, j \in 1..Len(t) : FirstStart(t[i]) < FirstStart(t[j]) => i < j

\* C5 (canonical order): after a successful decode every node's Slots are in
\* ascending order of start, and a node whose first range starts lower than
\* another's comes before it, whatever the order of the reply.
C5_CanonicalOrder ==
    /\ pc \in {"decoded", "redecoded"} =>
          /\ \A i \in 1..Len(tt) : SlotsAscending(tt[i])
          /\ OrderedByFirstStart(tt)
    /\ pc = "back" =>
          /\ \A i \in 1..Len(back) : SlotsAscending(back[i])
          /\ OrderedByFirstStart(back)

\* the reply lists the higher range first, and a node under both ranges
C5_Witness ==
    /\ pc = "decoded"
    /\ Len(stream) = 2
    /\ stream[1].lo > stream[2].lo
    /\ Len(tt) = 2
    /\ FirstStart(tt[1]) < FirstStart(tt[2])
    /\ \E i \in 1..2 : Len(tt[i].Slots) = 2 /\ tt[i].Slots[1][1] < tt[i].Slots[2][1]

\* C6 (master before replica): after the sort, of two nodes whose first
\* ranges start at the same slot, one a master and one a replica, the master
\* comes first, also when the two first ranges end differently.
C6_MasterFirst ==
    pc = "decoded" =>
        \A i, j \in 1..Len(tt) :
            /\ FirstStart(tt[i]) = FirstStart(tt[j])
            /\ IsMaster(tt[i])
            /\ ~IsMaster(tt[j])
            => i < j

C9_AllOrNothing ==
    /\ pc \in {"decoded", "redecoded"} => WellFormed(stream) /\ err = ""
    /\ pc = "failed" =>
          /\ ~WellFormed(stream)
          /\ err = "malformed node array"
          /\ tt = old

\* the second entry of the reply fails after the first parsed, and the
\* Topo held nodes before the call
C9_Witness ==
    /\ pc = "failed"
    /\ Len(stream) = 2
    /\ \A k \in 1..Len(stream[1].nodes) : Len(stream[1].nodes[k]) >= 2
    /\ Len(stream[1].nodes) > 0
    /\ Len(old) > 0
    /\ tt = old

\* C10 (the output is the merged collection): after a successful decode the
\* Topo holds one node for each address of the reply and no other node,
\* whatever it held before; after two decodes into the same Topo only the
\* nodes of the second reply are there, and addresses are unique.
C10_OnlyThisReply ==
    pc \in {"decoded", "redecoded"} =>
        /\ MergeOf(tt, stream)
        /\ \A i, j \in 1..Len(tt) : tt[i].Addr = tt[j].Addr => i = j

\* the last slot of a half-open range, in uint16
LastSlot(r) == (r[2] + Uint16Mod - 1) % Uint16Mod

Overlap(r, q) == r[1] <= LastSlot(q) /\ q[1] <= LastSlot(r)

RangesDisjoint(n) ==
    \A k, m \in 1..Len(n.Slots) : k # m => ~Overlap(n.Slots[k], n.Slots[m])

OwnsRanges(t) == \A i \in 1..Len(t) : Len(t[i].Slots) >= 1

\* the precondition of the round trip as claimed
C1_Pre(t) ==
    /\ UniqueAddrs(t)
    /\ \A i \in 1..Len(t) : RangesDisjoint(t[i])

PlainAddrs == {h \o ":" \o Port : h \in Hosts}

\* the lowest range of node n, and the first node of t that owns range r
LowestRange(n) == CHOOSE r \in Range(n.Slots) : \A q \in Range(n.Slots) : r[1] <= q[1]
FirstOwner(t, r) ==
    CHOOSE i \in 1..Len(t) :
        /\ r \in Range(t[i].Slots)
        /\ \A j \in 1..Len(t) : r \in Range(t[j].Slots) => i <= j

\* every node has the role that encoding T in its order gives it: among the
\* owners of the node's lowest range, the first is a master and the others
\* are replicas of that first one
RolesFollowOrder(t) ==
    \A i \in 1..Len(t) :
        LET f == FirstOwner(t, LowestRange(t[i]))
        IN IF f = i
           THEN t[i].SlaveOfAddr = "" /\ t[i].SlaveOfID = ""
           ELSE t[i].SlaveOfAddr = t[f].Addr /\ t[i].SlaveOfID = t[f].ID

\* b holds exactly the nodes of t, each with its Slots in ascending order
SameNodes(b, t) ==
    /\ Len(b) = Len(t)
    /\ \A i \in 1..Len(t) :
          \E j \in 1..Len(b) :
              /\ b[j].Addr = t[i].Addr
              /\ b[j].ID = t[i].ID
              /\ b[j].SlaveOfAddr = t[i].SlaveOfAddr
              /\ b[j].SlaveOfID = t[i].SlaveOfID
              /\ Len(b[j].Slots) = Len(t[i].Slots)
              /\ Range(b[j].Slots) = Range(t[i].Slots)
              /\ SlotsAscending(b[j])

C1_AmendedPre(t) ==
    /\ C1_Pre(t)
    /\ OwnsRanges(t)
    /\ \A i \in 1..Len(t) : t[i].Addr \in PlainAddrs
    /\ RolesFollowOrder(t)

C8_Deterministic ==
    /\ pc \in {"encoded", "reencoded", "marshaled"} =>
          LET w == out[Len(out)]
          IN /\ Len(w) = Cardinality(SlotKeys(tt))
             /\ \A r \in SlotKeys(tt) :
                   Cardinality({i \in 1..Len(w) : w[i].lo = r[1] /\ w[i].hi = LastSlot(r)}) = 1
             /\ \A i, j \in 1..Len(w) : i < j => w[i].lo <= w[j].lo
    /\ pc = "reencoded" => out[1] = out[2]

====
